---- MODULE Spec2Model ----
(***************************************************************************)
(* Model of the appointment API of src/main.py: the appointment collection *)
(* of the document store, the admin gate, and the handlers create, update, *)
(* delete, list and availability.  Each handler is an operator from the    *)
(* current store and the request to a response code and the store it       *)
(* leaves; each action applies one handler to one request.                 *)
(*                                                                         *)
(* A stored document is modelled by the two fields the handlers read and   *)
(* write with special treatment, datetime_iso and status.  The remaining   *)
(* fields (names, email, phone, location, notes) are only copied.          *)
(* The timestamps created_at and updated_at, which no handler reads, are   *)
(* not part of the model.  Datetimes are naive (no UTC offset): [min, sec, *)
(* us] with min the minute count since day 0 at 00:00.                     *)
(***************************************************************************)
EXTENDS Integers, Sequences, FiniteSets, TLC

VARIABLES store, nextId, last, inflight

vars == <<store, nextId, last, inflight>>

\* ------------------------------------------------------------------ bounds
\* Number of documents ever inserted (identifiers are 1..MaxDocs).
MaxDocs == 2
\* Concurrent create requests are handled by workers 1..NumWorkers.
NumWorkers == 2

\* ------------------------------------------------------------------ values
MinutesPerDay == 1440
LastMinuteOfDay == 1439
LastSecond == 59
LastMicro == 999999

\* The calendar dates of the requests: a day and the day after it.
Days == {0, 1}

NullDt == [null |-> TRUE]
AbsentDt == [absent |-> TRUE]
NullValue == "<null>"
Absent == "<absent>"

Dt(m, s, u) == [min |-> m, sec |-> s, us |-> u]

IsDt(d) == d # NullDt /\ d # AbsentDt

\* Stored slots: midnight of every day.
Slots == {Dt(D * MinutesPerDay, 0, 0) : D \in Days}

\* Submitted datetimes: every slot, as is and with a sub-minute part, in the
\* seconds for even days and in the microseconds for odd days.
DtInputs ==
  Slots \cup {Dt(D * MinutesPerDay, IF D % 2 = 0 THEN 45 ELSE 0,
                                    IF D % 2 = 0 THEN 0 ELSE 7) : D \in Days}

Statuses == {"booked", "confirmed", "done", "canceled"}

\* The string "bogus" stands for every string the status pattern rejects.
StatusInputs == {Absent, NullValue, "confirmed", "canceled", "bogus"}

ADMIN_SECRET == "demo-admin-secret"

NoHeader == [present |-> FALSE]
\* The header value scheme ++ " " ++ token, or scheme alone when sep is FALSE.
Header(s, sep, t) == [present |-> TRUE, scheme |-> s, sep |-> sep, token |-> t]

Headers ==
  {NoHeader, Header("Basic", TRUE, ADMIN_SECRET), Header("Bearer", FALSE, ""),
   Header("Bearer", TRUE, "wrong"), Header("Bearer", TRUE, ""),
   Header("Bearer", TRUE, ADMIN_SECRET), Header("bearer", TRUE, ADMIN_SECRET)}

\* str.lower() on the schemes above.
Lower(s) ==
  CASE s = "Bearer" -> "bearer"
    [] s = "Basic" -> "basic"
    [] OTHER -> s

\* Identifier 0 stands for every string that is not a well-formed ObjectId.
BadId == 0
IdInputs == {BadId} \cup (1 .. MaxDocs)

BadDate == -1
DateInputs == {BadDate} \cup Days

Workers == 1 .. NumWorkers
Idle == [pc |-> "idle"]

NoBody == << >>

\* ------------------------------------------------------------------ helpers
RECURSIVE Ascending(_)
\* The elements of a finite set of integers in ascending order.
Ascending(S) ==
  IF S = {} THEN << >>
  ELSE LET m == CHOOSE x \in S : \A y \in S : x <= y
       IN  <<m>> \o Ascending(S \ {m})

\* The order of datetimes: a is not later than b.
DtLE(a, b) ==
  \/ a.min < b.min
  \/ a.min = b.min /\ a.sec < b.sec
  \/ a.min = b.min /\ a.sec = b.sec /\ a.us <= b.us

\* Truncation that clears the microseconds and keeps the seconds.
TruncMicro(d) == [d EXCEPT !.us = 0]

\* dt.replace(second=0, microsecond=0)
Trunc(d) == [d EXCEPT !.sec = 0, !.us = 0]

\* A filter without the status condition.
AnyStatus(doc) == TRUE

\* The filter {"status": {"$ne": "canceled"}}: a null status matches it.
NotCanceled(doc) == doc.status # "canceled"

\* The output model: datetime_iso and status are required, non-null fields.
AppointmentOutValid(doc) == doc.dt # NullDt /\ doc.status # NullValue

Out(id, doc) == [id |-> id, dt |-> doc.dt, status |-> doc.status]

Response(c, s, n, b) == [code |-> c, store |-> s, nextId |-> n, body |-> b]

\* ------------------------------------------------------------------ admin gate
\* A gate that answers 401 to a wrong token as well.
admin_required_401(h) ==
  IF ~h.present \/ Lower(h.scheme) # "bearer" \/ ~h.sep \/ h.token # ADMIN_SECRET THEN 401
  ELSE 200

\* authorization.lower().startswith("bearer ")
StartsWithBearer(h) == Lower(h.scheme) = "bearer" /\ h.sep

admin_required(h) ==
  IF ~h.present \/ ~StartsWithBearer(h) THEN 401
  ELSE IF h.token # ADMIN_SECRET THEN 403
  ELSE 200

\* ------------------------------------------------------------------ create
\* The body fails validation unless datetime_iso is a datetime.
AppointmentCreateValid(p) == IsDt(p.dt)

\* find_one({"datetime_iso": dt, "status": {"$ne": "canceled"}})
FindDuplicate(s, d) ==
  \E i \in DOMAIN s : s[i].dt = d /\ NotCanceled(s[i])

\* The schema's document for a new appointment: status defaults to booked.
AppointmentSchema(d) == [dt |-> d, status |-> "booked"]

\* create_document: insert under a fresh identifier.
create_document(s, n, doc) == [i \in DOMAIN s \cup {n} |-> IF i = n THEN doc ELSE s[i]]

\* Validation and the duplicate check of create: 200 when both pass.
CreateGuardCode(s, p) ==
  IF ~AppointmentCreateValid(p) THEN 422
  ELSE IF FindDuplicate(s, Trunc(p.dt)) THEN 409
  ELSE 200

\* An insert that checks for a duplicate again in the same store operation.
InsertIfAbsent(s, n, d) ==
  IF FindDuplicate(s, d) THEN Response(409, s, n, NoBody)
  ELSE Response(200, create_document(s, n, AppointmentSchema(d)), n + 1,
                <<Out(n, AppointmentSchema(d))>>)

\* The insert of create and its response, for the truncated datetime d.
InsertAppointment(s, n, d) ==
  LET s2 == create_document(s, n, AppointmentSchema(d))
  IN  Response(200, s2, n + 1, <<Out(n, s2[n])>>)

create_appointment(s, n, p) ==
  LET c == CreateGuardCode(s, p)
  IN  IF c # 200 THEN Response(c, s, n, NoBody)
      ELSE InsertAppointment(s, n, Trunc(p.dt))

\* ------------------------------------------------------------------ update
AppointmentUpdateValid(p) == p.status \in {Absent, NullValue} \cup Statuses

\* A duplicate search that does not exclude the record's own identifier.
FindDuplicateAny(s, oid, d) ==
  \E i \in DOMAIN s : s[i].dt = d /\ NotCanceled(s[i])

\* find_one({"_id": {"$ne": oid}, "datetime_iso": dt, "status": {"$ne": "canceled"}})
FindDuplicateExcept(s, oid, d) ==
  \E i \in DOMAIN s : i # oid /\ s[i].dt = d /\ NotCanceled(s[i])

\* The value datetime.utcnow() returns; the model does not track instants.
UtcNow == "utcnow"

\* payload.model_dump(exclude_unset=True): the fields the request holds, null
\* ones included.
Unset(p) ==
  {k \in {"datetime_iso", "status"} :
     IF k = "datetime_iso" THEN p.dt = AbsentDt ELSE p.status = Absent}

\* The document given to $set: the fields of the payload that are set, the
\* datetime truncated when it is one, and updated_at.
Updates(p) ==
  [k \in ({"datetime_iso", "status"} \ Unset(p)) \cup {"updated_at"} |->
     CASE k = "datetime_iso" -> (IF IsDt(p.dt) THEN Trunc(p.dt) ELSE p.dt)
       [] k = "status" -> p.status
       [] OTHER -> UtcNow]

\* A write that replaces the document: an absent status falls back to booked.
ApplyReplace(doc, u) ==
  [dt |-> IF "datetime_iso" \in DOMAIN u THEN u["datetime_iso"] ELSE doc.dt,
   status |-> IF "status" \in DOMAIN u THEN u["status"] ELSE "booked"]

\* {"$set": updates}: every field of updates is written, null included, and
\* the other fields of the document are kept (updated_at is not tracked).
ApplySet(doc, u) ==
  [dt |-> IF "datetime_iso" \in DOMAIN u THEN u["datetime_iso"] ELSE doc.dt,
   status |-> IF "status" \in DOMAIN u THEN u["status"] ELSE doc.status]

update_appointment(s, n, h, id, p) ==
  IF admin_required(h) # 200 THEN Response(admin_required(h), s, n, NoBody)
  ELSE IF ~AppointmentUpdateValid(p) THEN Response(422, s, n, NoBody)
  ELSE IF id = BadId THEN Response(400, s, n, NoBody)
  ELSE IF IsDt(p.dt) /\ FindDuplicateExcept(s, id, Trunc(p.dt))
       THEN Response(409, s, n, NoBody)
  ELSE IF id \notin DOMAIN s THEN Response(404, s, n, NoBody)
  ELSE LET s2 == [s EXCEPT ![id] = ApplySet(s[id], Updates(p))]
       IN  IF AppointmentOutValid(s2[id])
           THEN Response(200, s2, n, <<Out(id, s2[id])>>)
           ELSE Response(500, s2, n, NoBody)

\* ------------------------------------------------------------------ delete
delete_appointment(s, n, h, id) ==
  IF admin_required(h) # 200 THEN Response(admin_required(h), s, n, NoBody)
  ELSE IF id = BadId THEN Response(400, s, n, NoBody)
  ELSE IF id \notin DOMAIN s THEN Response(404, s, n, NoBody)
  ELSE Response(200, [i \in DOMAIN s \ {id} |-> s[i]], n, NoBody)

\* ------------------------------------------------------------------ list
\* Ascending sort on datetime_iso: null sorts before every datetime.
SortsBefore(a, b) ==
  IF a.dt = NullDt THEN b.dt # NullDt
  ELSE b.dt # NullDt /\ ~DtLE(b.dt, a.dt)

RECURSIVE SortedIds(_, _)
\* The identifiers of I ordered by datetime_iso, ties in insertion order.
SortedIds(s, I) ==
  IF I = {} THEN << >>
  ELSE LET m == CHOOSE x \in I : \A y \in I :
                  \/ SortsBefore(s[x], s[y])
                  \/ ~SortsBefore(s[y], s[x]) /\ x <= y
       IN  <<m>> \o SortedIds(s, I \ {m})

list_appointments(s, n, h) ==
  IF admin_required(h) # 200 THEN Response(admin_required(h), s, n, NoBody)
  ELSE IF \E i \in DOMAIN s : ~AppointmentOutValid(s[i])
       THEN Response(500, s, n, NoBody)
  ELSE LET ids == SortedIds(s, DOMAIN s)
       IN  Response(200, s, n, [k \in 1 .. Len(ids) |-> Out(ids[k], s[ids[k]])])

\* ------------------------------------------------------------------ availability
\* A range that ends at the next midnight, inclusive.
DayEndNextMidnight(D) == Dt((D + 1) * MinutesPerDay, 0, 0)

DayStart(D) == Dt(D * MinutesPerDay, 0, 0)
DayEnd(D) == Dt(D * MinutesPerDay + LastMinuteOfDay, LastSecond, LastMicro)

\* {"datetime_iso": {"$gte": start, "$lte": end}, "status": {"$ne": "canceled"}}:
\* a null datetime_iso is in no range.
InRange(doc, start, end) ==
  /\ doc.dt # NullDt
  /\ DtLE(start, doc.dt)
  /\ DtLE(doc.dt, end)
  /\ NotCanceled(doc)

\* datetime.isoformat(): the calendar date and the time of day, as the fields
\* of the text YYYY-MM-DDTHH:MM:SS[.ffffff].
IsoFormat(d) ==
  [date |-> d.min \div MinutesPerDay,
   hour |-> (d.min % MinutesPerDay) \div 60,
   minute |-> d.min % 60,
   second |-> d.sec,
   micro |-> d.us]

check_availability(s, n, date) ==
  IF date = BadDate THEN Response(400, s, n, NoBody)
  ELSE LET ids == Ascending({i \in DOMAIN s : InRange(s[i], DayStart(date), DayEnd(date))})
       IN  Response(200, s, n, [k \in 1 .. Len(ids) |-> IsoFormat(s[ids[k]].dt)])

\* ------------------------------------------------------------------ actions
\* last is the latest request and its response: the operation, the identifier
\* addressed (update, delete), the datetime submitted (create), the status code
\* and the body.
Reply(op, r, id, d) ==
  /\ store' = r.store
  /\ nextId' = r.nextId
  /\ last' = [op |-> op, code |-> r.code, body |-> r.body, id |-> id, dt |-> d]

Create(p) ==
  LET r == create_appointment(store, nextId, p)
  IN  /\ r.nextId <= MaxDocs + 1
      /\ Reply("create", r, BadId, p.dt)
      /\ UNCHANGED inflight

Update(h, id, p) ==
  /\ Reply("update", update_appointment(store, nextId, h, id, p), id, AbsentDt)
  /\ UNCHANGED inflight

Delete(h, id) ==
  /\ Reply("delete", delete_appointment(store, nextId, h, id), id, AbsentDt)
  /\ UNCHANGED inflight

List(h) ==
  /\ Reply("list", list_appointments(store, nextId, h), BadId, AbsentDt)
  /\ UNCHANGED inflight

Availability(date) ==
  /\ Reply("availability", check_availability(store, nextId, date), BadId, AbsentDt)
  /\ UNCHANGED inflight

CreatePayloads == [dt : DtInputs \cup {NullDt}]
UpdatePayloads == [dt : DtInputs \cup {NullDt, AbsentDt}, status : StatusInputs]

Init ==
  /\ store = << >>
  /\ nextId = 1
  /\ last = [op |-> "none", code |-> 0, body |-> NoBody, id |-> BadId, dt |-> AbsentDt]
  /\ inflight = [w \in Workers |-> Idle]

\* The requests to update and delete: every identifier and payload under the
\* standard header of the admin, and one request under every other header.
AdminHeader == Header("Bearer", TRUE, ADMIN_SECRET)

UpdateRequests ==
  {r \in [h : Headers, id : IdInputs, p : UpdatePayloads] :
     \/ r.h = AdminHeader
     \/ r.id = 1 /\ r.p = [dt |-> AbsentDt, status |-> "canceled"]}

DeleteRequests ==
  {r \in [h : Headers, id : IdInputs] : r.h = AdminHeader \/ r.id = 1}

Next ==
  \/ \E p \in CreatePayloads : Create(p)
  \/ \E r \in UpdateRequests : Update(r.h, r.id, r.p)
  \/ \E r \in DeleteRequests : Delete(r.h, r.id)
  \/ \E h \in Headers : List(h)
  \/ \E date \in DateInputs : Availability(date)

Spec == Init /\ [][Next]_vars

\* ------------------------------------------------------------------ concurrent creates
\* Create requests handled by concurrent workers: the duplicate check
\* (find_one) and the insert (create_document) are two store operations, and
\* other requests run between them.
Inserting == {w \in Workers : inflight[w].pc = "insert"}

CreateGuard(w, p) ==
  /\ inflight[w] = Idle
  /\ nextId + Cardinality(Inserting) <= MaxDocs
  /\ IF CreateGuardCode(store, p) # 200
     THEN /\ Reply("create", Response(CreateGuardCode(store, p), store, nextId, NoBody),
                   BadId, p.dt)
          /\ UNCHANGED inflight
     ELSE /\ inflight' = [inflight EXCEPT ![w] = [pc |-> "insert", p |-> p]]
          /\ UNCHANGED <<store, nextId, last>>

CreateInsert(w) ==
  /\ inflight[w].pc = "insert"
  /\ Reply("create", InsertAppointment(store, nextId, Trunc(inflight[w].p.dt)),
           BadId, inflight[w].p.dt)
  /\ inflight' = [inflight EXCEPT ![w] = Idle]

NextConc ==
  \/ \E w \in Workers, p \in CreatePayloads : CreateGuard(w, p)
  \/ \E w \in Workers : CreateInsert(w)
  \/ \E r \in DeleteRequests : Delete(r.h, r.id)

SpecConc == Init /\ [][NextConc]_vars

\* ------------------------------------------------------------------ properties
\* The minute a submitted datetime falls in, as a stored slot.
MinuteOf(d) == Dt(d.min, 0, 0)

\* Some appointment other than r is not canceled and stored at slot m.
OccupiedByOther(r, m) ==
  \E i \in DOMAIN store : i # r /\ store[i].dt = m /\ store[i].status # "canceled"

\* Some appointment is not canceled and stored at slot m.
Occupied(m) == OccupiedByOther(BadId, m)

ValidUpdatePayloads == {p \in UpdatePayloads : p.status # "bogus"}

\* C1: no two different appointments that are not canceled are stored at the
\* same datetime (stated for appointments with an enumerated status and a
\* datetime, the case the create and update guards are written for).
C1_NoDoubleBooking ==
  \A i, j \in DOMAIN store :
    ( /\ i # j
      /\ store[i].status \in Statuses \ {"canceled"}
      /\ store[j].status \in Statuses \ {"canceled"}
      /\ IsDt(store[i].dt) )
    => store[i].dt # store[j].dt

\* C2: when the store holds a non-canceled appointment at minute M, a create
\* whose datetime falls in minute M fails with 409, whatever its seconds and
\* microseconds, and leaves the store unchanged.
C2_CreateConflict ==
  \A p \in CreatePayloads :
    (IsDt(p.dt) /\ Occupied(MinuteOf(p.dt)))
    => LET r == create_appointment(store, nextId, p)
       IN  r.code = 409 /\ r.store = store /\ r.nextId = nextId

C2_Witness ==
  /\ last.op = "create"
  /\ last.code = 409
  /\ IsDt(last.dt)
  /\ (last.dt.sec # 0 \/ last.dt.us # 0)
  /\ Occupied(MinuteOf(last.dt))

\* C3: a create request that passed the duplicate check inserts its
\* appointment, not canceled, whatever was inserted since the check; so two
\* interleaved creates for the same minute both insert (the witness).
C3_InsertAfterGuard ==
  [][\A w \in Workers :
       (inflight[w].pc = "insert" /\ inflight'[w] = Idle)
       => /\ last'.code = 200
          /\ DOMAIN store' = DOMAIN store \cup {nextId}
          /\ nextId \notin DOMAIN store
          /\ store'[nextId].dt = MinuteOf(inflight[w].p.dt)
          /\ store'[nextId].status # "canceled"]_vars

C3_Witness ==
  /\ last.op = "create"
  /\ last.code = 200
  /\ \E i, j \in DOMAIN store :
       /\ i # j
       /\ store[i].dt = store[j].dt
       /\ store[i].status = "booked"
       /\ store[j].status = "booked"

\* C4: an authorized update of a stored appointment r that supplies a datetime
\* fails with 409 exactly when an appointment other than r is not canceled and
\* stored at that datetime's minute; r's own slot never counts, and a 409
\* leaves the store unchanged.
C4_UpdateConflict ==
  \A r \in DOMAIN store, p \in ValidUpdatePayloads :
    IsDt(p.dt)
    => LET res == update_appointment(store, nextId, AdminHeader, r, p)
       IN  /\ (res.code = 409) <=> OccupiedByOther(r, MinuteOf(p.dt))
           /\ (res.code = 409) => (res.store = store /\ res.nextId = nextId)
           /\ ( /\ store[r].dt = MinuteOf(p.dt)
                /\ ~OccupiedByOther(r, MinuteOf(p.dt))
                /\ p.status \in {Absent} \cup Statuses
                /\ store[r].status # NullValue )
              => (res.code = 200 /\ res.store[r].dt = store[r].dt)

C4_Witness ==
  /\ last.op = "update"
  /\ last.code = 409
  /\ last.id \in DOMAIN store
  /\ store[last.id].status # "canceled"
  /\ \E i \in DOMAIN store : i # last.id /\ store[i].status # "canceled"

\* C5: a slot whose appointment was canceled, and that no non-canceled
\* appointment holds, is free: a create for it succeeds, and so does the
\* update of another appointment to it (no 409).
C5_CanceledFreesSlot ==
  \A c \in DOMAIN store :
    (store[c].status = "canceled" /\ IsDt(store[c].dt) /\ ~Occupied(store[c].dt))
    => /\ \A p \in CreatePayloads :
            (IsDt(p.dt) /\ MinuteOf(p.dt) = store[c].dt)
            => LET r == create_appointment(store, nextId, p)
               IN  /\ r.code = 200
                   /\ r.store[nextId].dt = store[c].dt
                   /\ r.store[c] = store[c]
       /\ \A o \in DOMAIN store \ {c}, p \in ValidUpdatePayloads :
            (IsDt(p.dt) /\ MinuteOf(p.dt) = store[c].dt)
            => LET r == update_appointment(store, nextId, AdminHeader, o, p)
               IN  /\ r.code # 409
                   /\ r.store[o].dt = store[c].dt
                   /\ AppointmentOutValid(r.store[o]) => r.code = 200

C5_Witness ==
  /\ last.op = "create"
  /\ last.code = 200
  /\ \E c \in DOMAIN store :
       /\ c # nextId - 1
       /\ store[c].status = "canceled"
       /\ store[c].dt = store[nextId - 1].dt
       /\ store[nextId - 1].status = "booked"

\* C6: the availability query for day D answers 200 with exactly the
\* datetimes of the stored appointments that are not canceled and fall on day
\* D, one entry per appointment, and leaves the store unchanged.
OnDay(d, D) == IsDt(d) /\ D * MinutesPerDay <= d.min /\ d.min < (D + 1) * MinutesPerDay

\* The datetime an ISO text denotes.
FromIso(t) == Dt((t.date * 24 + t.hour) * 60 + t.minute, t.second, t.micro)

C6_Availability ==
  \A D \in Days :
    LET r == check_availability(store, nextId, D)
        expected == {i \in DOMAIN store : OnDay(store[i].dt, D) /\ store[i].status # "canceled"}
    IN  /\ r.code = 200
        /\ r.store = store
        /\ r.nextId = nextId
        /\ Len(r.body) = Cardinality(expected)
        /\ \A m \in Slots :
             Cardinality({k \in 1 .. Len(r.body) : FromIso(r.body[k]) = m})
               = Cardinality({i \in expected : store[i].dt = m})

C6_Witness ==
  /\ last.op = "availability"
  /\ last.code = 200
  /\ last.body = <<[date |-> 0, hour |-> 0, minute |-> 0, second |-> 0, micro |-> 0]>>
  /\ \E i \in DOMAIN store :
       store[i].dt = Dt(MinutesPerDay, 0, 0) /\ store[i].status # "canceled"

\* C7: list, update and delete answer 401 to a request without a header of
\* the form "Bearer <token>", 403 to a bearer token that is not the secret,
\* and leave the store unchanged in both cases; they go past the gate only
\* for a token equal to the secret.
BearerForm(h) == h.present /\ h.sep /\ h.scheme \in {"Bearer", "bearer"}

GateCode(h) ==
  IF ~BearerForm(h) THEN 401 ELSE IF h.token # ADMIN_SECRET THEN 403 ELSE 200

GatedResponses(h) ==
  {list_appointments(store, nextId, h)}
    \cup {delete_appointment(store, nextId, h, id) : id \in IdInputs}
    \cup {update_appointment(store, nextId, h, id, p) : id \in IdInputs, p \in UpdatePayloads}

C7_AdminGate ==
  \A h \in Headers :
    \A r \in GatedResponses(h) :
      IF GateCode(h) # 200
      THEN r.code = GateCode(h) /\ r.store = store /\ r.nextId = nextId
      ELSE r.code \notin {401, 403}

C7_Witness ==
  /\ last.op = "delete"
  /\ last.code = 403
  /\ last.id \in DOMAIN store

\* C8: an authorized update addressed to a well-formed identifier that
\* matches no stored appointment fails with 404, for every payload, and
\* leaves the store unchanged.
C8_UpdateNotFound ==
  \A id \in IdInputs \ {BadId}, p \in ValidUpdatePayloads :
    id \notin DOMAIN store
    => LET r == update_appointment(store, nextId, AdminHeader, id, p)
       IN  r.code = 404 /\ r.store = store

\* C9: a successful update of appointment r writes the supplied fields (the
\* datetime truncated to the minute) and updated_at, and nothing else: r keeps
\* its identifier and the fields absent from the payload, and every other
\* appointment is unchanged.
C9_UpdateFrame ==
  \A r \in DOMAIN store, p \in UpdatePayloads :
    LET res == update_appointment(store, nextId, AdminHeader, r, p)
    IN  res.code = 200
        => /\ DOMAIN Updates(p) = ({"datetime_iso", "status"} \ Unset(p)) \cup {"updated_at"}
           /\ Updates(p)["updated_at"] = UtcNow
           /\ DOMAIN res.store = DOMAIN store
           /\ res.nextId = nextId
           /\ \A i \in DOMAIN store \ {r} : res.store[i] = store[i]
           /\ res.store[r].dt = IF p.dt = AbsentDt THEN store[r].dt ELSE MinuteOf(p.dt)
           /\ res.store[r].status = IF p.status = Absent THEN store[r].status ELSE p.status
           /\ res.body = <<[id |-> r, dt |-> res.store[r].dt, status |-> res.store[r].status]>>

C9_Witness ==
  /\ last.op = "update"
  /\ last.code = 200
  /\ last.id \in DOMAIN store
  /\ store[last.id].status = "confirmed"
  /\ \E i \in DOMAIN store : i # last.id /\ store[i].status = "booked"

\* C10: every stored appointment has a status among booked, confirmed, done
\* and canceled, and a datetime, not null, whose seconds and microseconds are
\* zero.
C10_StoredFields ==
  \A i \in DOMAIN store :
    /\ store[i].status \in Statuses
    /\ IsDt(store[i].dt)
    /\ store[i].dt.sec = 0
    /\ store[i].dt.us = 0
====
